---- MODULE Spec2Model ----
(***************************************************************************)
(* Model of the Plane tracker client (src/plane-agent.js), the simplified  *)
(* ticket creator (src/plane-ticket-creator.js) and the webhook listener   *)
(* (src/webhook-listener.js).                                              *)
(*                                                                         *)
(* Three specifications share the variables:                               *)
(*   SpecRequest  one client on which request / apiRequest are called;     *)
(*                every loop iteration (one awaited fetch) is one step     *)
(*   SpecBatch    createTicketsFromList driving createAITicket, whose two  *)
(*                remote calls run the same loop, one fetch per step       *)
(*   SpecWebhook  the POST /plane-webhook handler                          *)
(***************************************************************************)
EXTENDS Integers, Sequences, FiniteSets, TLC

VARIABLES
  call,        \* the request()/apiRequest() invocation in flight or last finished
  ncalls,      \* calls started on the client (SpecRequest)
  ticketList,  \* argument of createTicketsFromList
  i,           \* loop index of createTicketsFromList (1-based here, 0-based in JS)
  results,     \* the results array of createTicketsFromList
  pc,          \* position of createTicketsFromList / createAITicket
  sub,         \* what happened in the createAITicket call of the current prompt
  timeline,    \* creation attempts and elapsed delays of the batch, in order
  served,      \* webhook requests answered so far
  disp,        \* the webhook route: "Idle", "Handling" or "Responding"
  req,         \* body of the webhook request being handled
  ran,         \* the functions that ran for it, in call order
  thrown,      \* message of the error its handler threw ("": none)
  res,         \* the response sent for it
  cls,         \* the classifier under test: its input text and the analyses made of it
  rw,          \* the RailwayAgent: its GraphQL call in flight or last finished
  bulk,        \* what the bulk commands printed: the counts of their summaries
  hook         \* setupPlaneWebhook: its position, its requests and their answers

vars ==
  <<call, ncalls, ticketList, i, results, pc, sub, timeline,
    served, disp, req, ran, thrown, res, cls, rw, bulk, hook>>

\* ------------------------------------------------------------------ bounds
MaxCalls == 2
MaxPrompts == 3
MaxEvents == 2
MaxWords == 2
MaxAnalyses == 2
MaxQueries == 2
MaxWorkspaces == 3

\* --------------------------------------------------------------- JS values
Undefined == [tag |-> "undefined", id |-> "", status |-> ""]
Null == [tag |-> "null", id |-> "", status |-> ""]
Obj(id) == [tag |-> "object", id |-> id, status |-> ""]

\* `v && v.id`
Truthy(v) == v.tag = "object"
HasId(v) == Truthy(v) /\ v.id # ""

NoError == [message |-> "", status |-> 0]
APIError(status) == [message |-> "API error", status |-> status]
NonJsonError == [message |-> "Expected JSON response but got HTML/text", status |-> 0]
FetchError == [message |-> "fetch failed", status |-> 0]

\* ---------------------------------------------------------- HTTP responses
Resp(status, ctype, body) == [status |-> status, ctype |-> ctype, body |-> body]
\* fetch() rejected: there is no response
NetFail == Resp(0, "none", Undefined)

Responses ==
  { Resp(200, "application/json", Obj("x")),
    Resp(201, "application/json", Obj("")),
    Resp(200, "text/html", Undefined),
    Resp(403, "application/json", Undefined),
    Resp(404, "text/html", Undefined),
    Resp(500, "text/html", Undefined),
    NetFail }

\* the answers drawn for the two remote calls of a ticket submission
SubmissionResponses == Responses \ {Resp(500, "text/html", Undefined), NetFail}

AnswersTo(c) == IF c.purpose = "direct" THEN Responses ELSE SubmissionResponses

ok(r) == r.status >= 200 /\ r.status <= 299
IsJson(r) == r.ctype = "application/json"

\* ------------------------------------------------- the probing loop bodies
apiPaths == <<"/api/v1", "/api", "/api/public", "">>
creatorApiPaths == <<"/api/v1", "/api", "/api/public">>

Continue == [t |-> "continue", value |-> Undefined, error |-> NoError]
Return(v) == [t |-> "return", value |-> v, error |-> NoError]
Throw(e) == [t |-> "throw", value |-> Undefined, error |-> e]

\* tryBlock without the 404 test: a 404 is handled like any other non-2xx answer
tryBlock_No404Test(r) ==
  IF r = NetFail THEN Throw(FetchError)
  ELSE IF ~ok(r) THEN Throw(APIError(r.status))
  ELSE IF IsJson(r) THEN Return(r.body)
  ELSE Throw(NonJsonError)

\* PlaneAgent.request, the try block of one iteration
tryBlock(r) ==
  IF r = NetFail THEN Throw(FetchError)
  ELSE IF r.status = 404 THEN Continue
  ELSE IF ~ok(r) THEN Throw(APIError(r.status))
  ELSE IF IsJson(r) THEN Return(r.body)
  ELSE Throw(NonJsonError)

\* PlaneAgent.request, the catch block: rethrow on the last path only
catchBlock(apiPath, error) ==
  IF apiPath = apiPaths[Len(apiPaths)] THEN Throw(error) ELSE Continue

\* PlaneAgent.request, one iteration of the for loop
iteration(apiPath, r) ==
  LET t == tryBlock(r)
  IN IF t.t = "throw" THEN catchBlock(apiPath, t.error) ELSE t

\* PlaneTicketCreator.apiRequest, the try block of one iteration
creatorTryBlock(r) ==
  IF r = NetFail THEN Throw(FetchError)
  ELSE IF r.status = 404 THEN Continue
  ELSE IF ~ok(r) THEN Throw(APIError(r.status))
  ELSE IF IsJson(r) THEN Return(r.body)
  ELSE Continue

\* PlaneTicketCreator.apiRequest, the catch block: null on the last path only
creatorCatchBlock(apiPath, error) ==
  IF apiPath = creatorApiPaths[Len(creatorApiPaths)] THEN Return(Null) ELSE Continue

creatorIteration(apiPath, r) ==
  LET t == creatorTryBlock(r)
  IN IF t.t = "throw" THEN creatorCatchBlock(apiPath, t.error) ELSE t

\* ------------------------------------------------------ one call in flight
NoCall ==
  [method |-> "none", purpose |-> "none", k |-> 0, log |-> <<>>,
   state |-> "none", value |-> Undefined, error |-> NoError, prev |-> 0]

\* the position of the candidate that served the call c (0: none did)
LastGood(c) == IF c.state = "returned" /\ Truthy(c.value) THEN Len(c.log) ELSE 0

\* a call that starts at the candidate that served the call before it
NewCall_ResumeAtLast(method, purpose) ==
  [method |-> method, purpose |-> purpose,
   k |-> IF LastGood(call) > 0 THEN LastGood(call) ELSE 1, log |-> <<>>,
   state |-> "running", value |-> Undefined, error |-> NoError, prev |-> 0]

\* the loop over the candidates starts at the first one in every call
NewCall(method, purpose) ==
  [method |-> method, purpose |-> purpose, k |-> 1, log |-> <<>>,
   state |-> "running", value |-> Undefined, error |-> NoError, prev |-> 0]

\* the call after the response r to the candidate paths[c.k] was handled by `it`
Advance(c, paths, r, it) ==
  LET log2 == Append(c.log, [path |-> paths[c.k], response |-> r])
  IN CASE it.t = "return" ->
            [c EXCEPT !.log = log2, !.state = "returned", !.value = it.value]
       [] it.t = "throw" ->
            [c EXCEPT !.log = log2, !.state = "threw", !.error = it.error]
       [] OTHER ->
            IF c.k = Len(paths)
            THEN \* the for loop ends and the function falls off its end
                 [c EXCEPT !.log = log2, !.state = "returned", !.value = Undefined]
            ELSE [c EXCEPT !.log = log2, !.k = c.k + 1]

Running(c) == c.state = "running"
Finished(c) == c.state \in {"returned", "threw"}

\* what createAITicket keeps of a finished remote call: its outcome, the first
\* non-2xx, non-404 status a candidate answered (0: none) and whether every
\* candidate was tried and answered 404
Rejected(r) == r # NetFail /\ r.status # 404 /\ ~ok(r)

RejectedAt(log) == {j \in 1..Len(log) : Rejected(log[j].response)}

FirstRejected(log) ==
  IF RejectedAt(log) = {} THEN 0
  ELSE log[CHOOSE j \in RejectedAt(log) : \A m \in RejectedAt(log) : j <= m].response.status

All404(c, paths) ==
  /\ Len(c.log) = Len(paths)
  /\ \A j \in 1..Len(c.log) : c.log[j].response.status = 404

PathsOf(c) == IF c.method = "apiRequest" THEN creatorApiPaths ELSE apiPaths

Summary(c) ==
  [state |-> c.state, value |-> c.value, error |-> c.error,
   rejected |-> FirstRejected(c.log), all404 |-> All404(c, apiPaths)]

NoSummary ==
  [state |-> "none", value |-> Undefined, error |-> NoError, rejected |-> 0, all404 |-> FALSE]

EmptySub == [create |-> NoSummary, comment |-> NoSummary, out |-> "none"]

BatchIdle ==
  /\ ticketList = <<>> /\ i = 0 /\ results = <<>> /\ pc = "off"
  /\ sub = EmptySub
  /\ timeline = <<>>

NoData == [present |-> FALSE, name |-> "", description |-> "absent"]
Data(description) == [present |-> TRUE, name |-> "Login", description |-> description]

NoBody == [event_type |-> "", data |-> NoData]
NoResponse == [code |-> 0, status |-> "", processed |-> "", message |-> ""]

WebhookIdle ==
  /\ served = 0 /\ disp = "Idle" /\ req = NoBody
  /\ ran = <<>> /\ thrown = "" /\ res = NoResponse

batchVars == <<ticketList, i, results, pc, sub, timeline>>
webhookVars == <<served, disp, req, ran, thrown, res>>
otherVars == <<cls, rw, bulk, hook>>

NoAnalysis ==
  [fn |-> "none", title |-> <<>>, category |-> "", priority |-> "", complexity |-> "",
   labels |-> <<>>, id |-> 0]

ClassifyIdle ==
  cls = [text |-> <<>>, n |-> 0, clock |-> 0, last |-> NoAnalysis,
         first |-> [f \in {"none"} |-> NoAnalysis]]

NoRailwayResponse ==
  [status |-> 0, json |-> FALSE, errors |-> "absent", data |-> "none"]

NoQuery ==
  [op |-> "none", state |-> "none", response |-> NoRailwayResponse,
   data |-> "none", error |-> ""]

NoCounts == [successful |-> 0, failed |-> 0, total |-> 0, printed |-> FALSE]

NoBulk ==
  [summary |-> NoCounts, made |-> FALSE, tickets |-> <<>>,
   categories |-> <<>>, priorities |-> <<>>]

BulkIdle == bulk = NoBulk

NoSetup ==
  [apiKey |-> FALSE, pc |-> "off", listing |-> "none", workspaces |-> <<>>, k |-> 0,
   posts |-> <<>>, created |-> <<>>, raised |-> FALSE, error |-> ""]

SetupIdle == hook = NoSetup

NoTicket ==
  [action |-> "none", status |-> "none", error |-> "", extra |-> ""]

\* no query was awaited
NoOutcome == [state |-> "none", data |-> "none", error |-> ""]

NoExecution == [state |-> "none", result |-> NoTicket, out |-> NoOutcome]

RailwayIdle == rw = [nq |-> 0, q |-> NoQuery, ticket |-> NoTicket, x |-> NoExecution]

\* ------------------------------------------------------------ SpecRequest
\* a caller invokes agent.request(endpoint)
CallRequest ==
  /\ ~Running(call) /\ ncalls < MaxCalls
  /\ call' = [NewCall("request", "direct") EXCEPT !.prev = LastGood(call)]
  /\ ncalls' = ncalls + 1
  /\ UNCHANGED <<batchVars, webhookVars, otherVars>>

\* a caller invokes creator.apiRequest(endpoint)
CallApiRequest ==
  /\ ~Running(call) /\ ncalls < MaxCalls
  /\ call' = [NewCall("apiRequest", "direct") EXCEPT !.prev = LastGood(call)]
  /\ ncalls' = ncalls + 1
  /\ UNCHANGED <<batchVars, webhookVars, otherVars>>

\* PlaneAgent.request: the awaited fetch of candidate k settles
Fetch ==
  /\ Running(call) /\ call.method = "request"
  /\ \E r \in AnswersTo(call) :
       call' = Advance(call, apiPaths, r, iteration(apiPaths[call.k], r))
  /\ UNCHANGED <<ncalls, batchVars, webhookVars, otherVars>>

\* PlaneTicketCreator.apiRequest: the awaited fetch of candidate k settles
ApiFetch ==
  /\ Running(call) /\ call.method = "apiRequest"
  /\ \E r \in AnswersTo(call) :
       call' = Advance(call, creatorApiPaths, r,
                       creatorIteration(creatorApiPaths[call.k], r))
  /\ UNCHANGED <<ncalls, batchVars, webhookVars, otherVars>>

InitRequest ==
  call = NoCall /\ ncalls = 0 /\ BatchIdle /\ WebhookIdle /\ ClassifyIdle /\ RailwayIdle /\ BulkIdle /\ SetupIdle

NextRequest == CallRequest \/ CallApiRequest \/ Fetch \/ ApiFetch

SpecRequest == InitRequest /\ [][NextRequest]_vars

\* -------------------------------------------------------------- SpecBatch
Prompts == {"Fix login bug", "Add dark mode"}

TicketLists == UNION {[1..n -> Prompts] : n \in 0..MaxPrompts}

\* PlaneAgent.createAITicket, its try/catch around the two awaited calls:
\* what the call does once createIssue ended as `create` and, when it was
\* made, addComment ended as `comment`
createAITicket(create, comment) ==
  IF create.state = "threw" THEN Throw(create.error)
  ELSE IF HasId(create.value) /\ comment.state = "threw" THEN Throw(comment.error)
  ELSE Return(create.value)

\* createTicketsFromList, the entry pushed for one prompt
pushResult(rs, out, ticketPrompt) ==
  IF out.t = "throw"
  THEN Append(rs, [success |-> FALSE, ticket |-> Undefined,
                   error |-> out.error.message, status |-> out.error.status,
                   prompt |-> ticketPrompt])
  ELSE Append(rs, [success |-> TRUE, ticket |-> out.value,
                   error |-> "", status |-> 0, prompt |-> ticketPrompt])

\* afterPush leaving the loop on a failure instead of going on
afterPush_StopOnFailure(out) == IF out.t = "throw" THEN "done" ELSE "sleep"

\* createTicketsFromList, where the loop body goes after createAITicket
\* settled: the rate-limit wait stands in the try block, after the push
afterPush(out) == IF out.t = "throw" THEN "loop" ELSE "sleep"

\* createAITicket settled with `out`: the entry is pushed
Settle(create, comment) ==
  LET out == createAITicket(create, comment)
  IN /\ sub' = [create |-> create, comment |-> comment, out |-> out.t]
     /\ results' = pushResult(results, out, ticketList[i])
     /\ pc' = afterPush(out)
     /\ i' = IF afterPush(out) = "loop" THEN i + 1 ELSE i
     /\ call' = NoCall

\* NextTicket with createAITicket not awaited: the next prompt starts while
\* the creation call of the one before is in flight
NextTicket_NoAwait ==
  /\ \/ pc = "loop" /\ i <= Len(ticketList) /\ i' = i
     \/ pc = "createIssue" /\ i < Len(ticketList) /\ i' = i + 1
  /\ sub' = EmptySub
  /\ call' = NewCall("request", "createIssue")
  /\ pc' = "createIssue"
  /\ timeline' = Append(timeline, "create")
  /\ UNCHANGED <<ncalls, ticketList, results, webhookVars, otherVars>>

\* the loop head finds another prompt: createAITicket starts and issues the
\* first request of createIssue
NextTicket ==
  /\ pc = "loop" /\ i <= Len(ticketList)
  /\ sub' = EmptySub
  /\ call' = NewCall("request", "createIssue")
  /\ pc' = "createIssue"
  /\ timeline' = Append(timeline, "create")
  /\ UNCHANGED <<ncalls, ticketList, i, results, webhookVars, otherVars>>

\* createIssue settled
AfterCreateIssue ==
  /\ pc = "createIssue" /\ Finished(call)
  /\ IF call.state = "returned" /\ HasId(call.value)
     THEN /\ sub' = [sub EXCEPT !.create = Summary(call)]
          /\ call' = NewCall("request", "addComment")
          /\ pc' = "addComment"
          /\ UNCHANGED <<i, results>>
     ELSE Settle(Summary(call), NoSummary)
  /\ UNCHANGED <<ncalls, ticketList, timeline, webhookVars, otherVars>>

\* addComment settled
AfterAddComment ==
  /\ pc = "addComment" /\ Finished(call)
  /\ Settle(sub.create, Summary(call))
  /\ UNCHANGED <<ncalls, ticketList, timeline, webhookVars, otherVars>>

\* the rate-limit timer fires
Sleep ==
  /\ pc = "sleep"
  /\ timeline' = Append(timeline, "sleep")
  /\ i' = i + 1
  /\ pc' = "loop"
  /\ UNCHANGED <<call, ncalls, ticketList, results, sub, webhookVars, otherVars>>

\* the loop ends and results is returned
ReturnResults ==
  /\ pc = "loop" /\ i > Len(ticketList)
  /\ pc' = "done"
  /\ UNCHANGED <<call, ncalls, ticketList, i, results, sub, timeline, webhookVars, otherVars>>

InitBatch ==
  /\ call = NoCall /\ ncalls = 0
  /\ ticketList \in TicketLists
  /\ i = 1 /\ results = <<>> /\ pc = "loop" /\ sub = EmptySub /\ timeline = <<>>
  /\ WebhookIdle /\ ClassifyIdle /\ RailwayIdle /\ BulkIdle /\ SetupIdle

\* ------------------------------------------------------------ SpecWebhook
EventTypes ==
  {"issue.created", "issue.updated", "issue_comment.created", "project.created",
   "unknown.tag", "issue.deleted"}

\* data: missing from the body, or an object whose description is missing,
\* a string or a number
Datas == {NoData, Data("absent"), Data("text"), Data("number")}

TypeErrorName == "Cannot read properties of undefined (reading 'name')"
TypeErrorLower == "description.toLowerCase is not a function"

\* route with a default branch that falls into a handler
route_DefaultHandled(event_type) ==
  CASE event_type = "issue.created" -> "handleIssueCreated"
    [] event_type = "issue_comment.created" -> "handleCommentCreated"
    [] event_type = "project.created" -> "handleProjectCreated"
    [] OTHER -> "handleIssueUpdated"

\* the switch of the route: the handler awaited for an event type
route(event_type) ==
  CASE event_type = "issue.created" -> "handleIssueCreated"
    [] event_type = "issue.updated" -> "handleIssueUpdated"
    [] event_type = "issue_comment.created" -> "handleCommentCreated"
    [] event_type = "project.created" -> "handleProjectCreated"
    [] OTHER -> "default"

\* a POST /plane-webhook arrives and the route destructures its body
Receive ==
  /\ disp = "Idle" /\ served < MaxEvents
  /\ \E t \in EventTypes, d \in Datas : req' = [event_type |-> t, data |-> d]
  /\ disp' = "Handling"
  /\ ran' = <<>> /\ thrown' = "" /\ res' = NoResponse
  /\ UNCHANGED <<call, ncalls, batchVars, otherVars, served>>

\* HandleIssueCreated without the break that ends its case: the switch falls
\* through into the case of issue.updated
HandleIssueCreated_FallsThrough ==
  /\ disp = "Handling" /\ route(req.event_type) = "handleIssueCreated"
  /\ IF ~req.data.present
     THEN ran' = <<"handleIssueCreated">> /\ thrown' = TypeErrorName
     ELSE IF req.data.description = "number"
     THEN ran' = <<"handleIssueCreated", "addAIAnalysisComment">> /\ thrown' = TypeErrorLower
     ELSE /\ ran' = <<"handleIssueCreated", "addAIAnalysisComment", "handleIssueUpdated">>
          /\ thrown' = ""
  /\ disp' = "Responding"
  /\ UNCHANGED <<call, ncalls, batchVars, otherVars, served, req, res>>

\* handleIssueCreated reads data.name, then awaits addAIAnalysisComment, which
\* classifies issue.description || ''
HandleIssueCreated ==
  /\ disp = "Handling" /\ route(req.event_type) = "handleIssueCreated"
  /\ IF ~req.data.present
     THEN ran' = <<"handleIssueCreated">> /\ thrown' = TypeErrorName
     ELSE /\ ran' = <<"handleIssueCreated", "addAIAnalysisComment">>
          /\ thrown' = IF req.data.description = "number" THEN TypeErrorLower ELSE ""
  /\ disp' = "Responding"
  /\ UNCHANGED <<call, ncalls, batchVars, otherVars, served, req, res>>

HandleIssueUpdated ==
  /\ disp = "Handling" /\ route(req.event_type) = "handleIssueUpdated"
  /\ ran' = <<"handleIssueUpdated">>
  /\ thrown' = IF req.data.present THEN "" ELSE TypeErrorName
  /\ disp' = "Responding"
  /\ UNCHANGED <<call, ncalls, batchVars, otherVars, served, req, res>>

HandleCommentCreated ==
  /\ disp = "Handling" /\ route(req.event_type) = "handleCommentCreated"
  /\ ran' = <<"handleCommentCreated">>
  /\ thrown' = ""
  /\ disp' = "Responding"
  /\ UNCHANGED <<call, ncalls, batchVars, otherVars, served, req, res>>

HandleProjectCreated ==
  /\ disp = "Handling" /\ route(req.event_type) = "handleProjectCreated"
  /\ ran' = <<"handleProjectCreated">>
  /\ thrown' = IF req.data.present THEN "" ELSE TypeErrorName
  /\ disp' = "Responding"
  /\ UNCHANGED <<call, ncalls, batchVars, otherVars, served, req, res>>

\* the default branch only logs the event type
Unhandled ==
  /\ disp = "Handling" /\ route(req.event_type) = "default"
  /\ ran' = <<>> /\ thrown' = ""
  /\ disp' = "Responding"
  /\ UNCHANGED <<call, ncalls, batchVars, otherVars, served, req, res>>

\* respond as if the handler were not awaited: its error is never seen
respond_ErrorUnseen(event_type, error) ==
  [code |-> 200, status |-> "success", processed |-> event_type, message |-> ""]

\* the response of the route: the end of the try block, or its catch block
respond(event_type, error) ==
  IF error = ""
  THEN [code |-> 200, status |-> "success", processed |-> event_type, message |-> ""]
  ELSE [code |-> 500, status |-> "error", processed |-> "", message |-> error]

\* Respond with a catch block that only logs the error
Respond_OnlyOnSuccess ==
  /\ disp = "Responding" /\ thrown = ""
  /\ res' = respond(req.event_type, thrown)
  /\ served' = served + 1
  /\ disp' = "Idle"
  /\ UNCHANGED <<call, ncalls, batchVars, otherVars, req, ran, thrown>>

\* the route sends its response and ends
Respond ==
  /\ disp = "Responding"
  /\ res' = respond(req.event_type, thrown)
  /\ served' = served + 1
  /\ disp' = "Idle"
  /\ UNCHANGED <<call, ncalls, batchVars, otherVars, req, ran, thrown>>

InitWebhook ==
  call = NoCall /\ ncalls = 0 /\ BatchIdle /\ WebhookIdle /\ ClassifyIdle /\ RailwayIdle /\ BulkIdle /\ SetupIdle

NextWebhook ==
  \/ Receive \/ HandleIssueCreated \/ HandleIssueUpdated \/ HandleCommentCreated
  \/ HandleProjectCreated \/ Unhandled \/ Respond

SpecWebhook == InitWebhook /\ [][NextWebhook]_vars

\* the awaited handler settles and the route runs on to its response; when
\* the next event arrives is up to the sender
HandleAndRespond ==
  \/ HandleIssueCreated \/ HandleIssueUpdated \/ HandleCommentCreated
  \/ HandleProjectCreated \/ Unhandled \/ Respond

SpecWebhookLive == SpecWebhook /\ WF_vars(HandleAndRespond)

\* ----------------------------------------------------------- SpecClassify
\* Texts are sequences of one-character strings.
UpperCase ==
  <<"A", "B", "C", "D", "E", "F", "G", "H", "I", "J", "K", "L", "M",
    "N", "O", "P", "Q", "R", "S", "T", "U", "V", "W", "X", "Y", "Z">>
LowerCase ==
  <<"a", "b", "c", "d", "e", "f", "g", "h", "i", "j", "k", "l", "m",
    "n", "o", "p", "q", "r", "s", "t", "u", "v", "w", "x", "y", "z">>

\* String.prototype.toLowerCase
toLowerCase(s) ==
  [p \in 1..Len(s) |->
     IF \E k \in 1..Len(UpperCase) : UpperCase[k] = s[p]
     THEN LowerCase[CHOOSE k \in 1..Len(UpperCase) : UpperCase[k] = s[p]]
     ELSE s[p]]

\* String.prototype.includes
includes(s, keyword) ==
  \E p \in 0..(Len(s) - Len(keyword)) : SubSeq(s, p + 1, p + Len(keyword)) = keyword

includesAny(s, keywords) == \E w \in keywords : includes(s, w)

\* s.split('.')[0]
firstSentence(s) ==
  IF \E p \in 1..Len(s) : s[p] = "."
  THEN SubSeq(s, 1, (CHOOSE p \in 1..Len(s) : s[p] = "." /\ \A q \in 1..(p - 1) : s[q] # ".") - 1)
  ELSE s

\* String.prototype.trim
trim(s) ==
  IF \A p \in 1..Len(s) : s[p] = " " THEN <<>>
  ELSE LET a == CHOOSE p \in 1..Len(s) : s[p] # " " /\ \A q \in 1..(p - 1) : s[q] = " "
           b == CHOOSE p \in 1..Len(s) : s[p] # " " /\ \A q \in (p + 1)..Len(s) : s[q] = " "
       IN SubSeq(s, a, b)

\* s.substring(0, n)
substring0(s, n) == IF Len(s) > n THEN SubSeq(s, 1, n) ELSE s

\* s.split(' ').length
wordCount(s) == Cardinality({p \in 1..Len(s) : s[p] = " "}) + 1

\* PlaneAgent.analyzePrompt, category and its priority
promptCategory(lowerPrompt) ==
  IF includesAny(lowerPrompt, {<<"b", "u", "g">>, <<"e", "r", "r", "o", "r">>, <<"i", "s", "s", "u", "e">>})
  THEN [category |-> "BUG", priority |-> "high"]
  ELSE IF includesAny(lowerPrompt, {<<"f", "e", "a", "t", "u", "r", "e">>, <<"a", "d", "d">>, <<"i", "m", "p", "l", "e", "m", "e", "n", "t">>})
  THEN [category |-> "FEATURE", priority |-> "medium"]
  ELSE IF includesAny(lowerPrompt, {<<"i", "m", "p", "r", "o", "v", "e">>, <<"o", "p", "t", "i", "m", "i", "z", "e">>})
  THEN [category |-> "IMPROVEMENT", priority |-> "low"]
  ELSE [category |-> "TASK", priority |-> "medium"]

\* promptUrgency testing the low-priority phrases first
promptUrgency_LowFirst(lowerPrompt, priority) ==
  IF includesAny(lowerPrompt, {<<"l", "o", "w", " ", "p", "r", "i", "o", "r", "i", "t", "y">>, <<"w", "h", "e", "n", " ", "p", "o", "s", "s", "i", "b", "l", "e">>}) THEN "low"
  ELSE IF includesAny(lowerPrompt, {<<"u", "r", "g", "e", "n", "t">>, <<"a", "s", "a", "p">>, <<"c", "r", "i", "t", "i", "c", "a", "l">>}) THEN "urgent"
  ELSE priority

\* PlaneAgent.analyzePrompt, "Extract urgency"
promptUrgency(lowerPrompt, priority) ==
  IF includesAny(lowerPrompt, {<<"u", "r", "g", "e", "n", "t">>, <<"a", "s", "a", "p">>, <<"c", "r", "i", "t", "i", "c", "a", "l">>}) THEN "urgent"
  ELSE IF includesAny(lowerPrompt, {<<"l", "o", "w", " ", "p", "r", "i", "o", "r", "i", "t", "y">>, <<"w", "h", "e", "n", " ", "p", "o", "s", "s", "i", "b", "l", "e">>}) THEN "low"
  ELSE priority

\* promptTitle numbering the tickets of one agent
promptTitle_Numbered(prompt) ==
  IF cls.n > 0 THEN <<"#">> \o trim(firstSentence(prompt)) ELSE trim(firstSentence(prompt))

\* promptTitle taking the whole prompt, not its first sentence
promptTitle_WholePrompt(prompt) ==
  LET title == trim(prompt)
  IN IF Len(title) > 80 THEN SubSeq(title, 1, 77) \o <<".", ".", ".">> ELSE title

\* PlaneAgent.analyzePrompt, "Generate title"
promptTitle(prompt) ==
  LET title == trim(firstSentence(prompt))
  IN IF Len(title) > 80 THEN SubSeq(title, 1, 77) \o <<".", ".", ".">> ELSE title

techKeywords ==
  <<<<"a", "p", "i">>, <<"d", "a", "t", "a", "b", "a", "s", "e">>, <<"f", "r", "o", "n", "t", "e", "n", "d">>, <<"b", "a", "c", "k", "e", "n", "d">>,
    <<"u", "i">>, <<"u", "x">>, <<"s", "e", "c", "u", "r", "i", "t", "y">>, <<"p", "e", "r", "f", "o", "r", "m", "a", "n", "c", "e">>>>

\* PlaneAgent.analyzePrompt, "Extract labels/tags"
promptLabels(lowerPrompt) == SelectSeq(techKeywords, LAMBDA w : includes(lowerPrompt, w))

\* PlaneAgent.analyzePrompt, "Determine complexity"
promptComplexity(prompt, lowerPrompt, labels) ==
  IF wordCount(prompt) > 100
       \/ includesAny(lowerPrompt, {<<"i", "n", "t", "e", "g", "r", "a", "t", "i", "o", "n">>, <<"a", "r", "c", "h", "i", "t", "e", "c", "t", "u", "r", "e">>})
  THEN "HIGH"
  ELSE IF wordCount(prompt) > 50 \/ Len(labels) > 2 THEN "MEDIUM"
  ELSE "LOW"

\* PlaneAgent.analyzePrompt
analyzePrompt(prompt) ==
  LET lowerPrompt == toLowerCase(prompt)
      c == promptCategory(lowerPrompt)
      labels == promptLabels(lowerPrompt)
  IN [fn |-> "analyzePrompt",
      title |-> promptTitle(prompt),
      category |-> c.category,
      priority |-> promptUrgency(lowerPrompt, c.priority),
      complexity |-> promptComplexity(prompt, lowerPrompt, labels),
      labels |-> labels,
      id |-> 0]

\* PlaneTicketCreator.analyzeTicket, "Categorization"
ticketCategory(lowerDesc) ==
  IF includesAny(lowerDesc, {<<"b", "u", "g">>, <<"e", "r", "r", "o", "r">>, <<"f", "i", "x">>})
  THEN [category |-> "Bug", priority |-> "High"]
  ELSE IF includesAny(lowerDesc, {<<"f", "e", "a", "t", "u", "r", "e">>, <<"a", "d", "d">>, <<"i", "m", "p", "l", "e", "m", "e", "n", "t">>})
  THEN [category |-> "Feature", priority |-> "Medium"]
  ELSE IF includesAny(lowerDesc, {<<"i", "m", "p", "r", "o", "v", "e">>, <<"o", "p", "t", "i", "m", "i", "z", "e">>})
  THEN [category |-> "Enhancement", priority |-> "Low"]
  ELSE [category |-> "Task", priority |-> "Medium"]

\* PlaneTicketCreator.analyzeTicket, "Priority adjustment"
ticketUrgency(lowerDesc, priority) ==
  IF includesAny(lowerDesc, {<<"u", "r", "g", "e", "n", "t">>, <<"c", "r", "i", "t", "i", "c", "a", "l">>}) THEN "Urgent" ELSE priority

techTags ==
  <<<<"a", "p", "i">>, <<"d", "a", "t", "a", "b", "a", "s", "e">>, <<"f", "r", "o", "n", "t", "e", "n", "d">>, <<"b", "a", "c", "k", "e", "n", "d">>,
    <<"u", "i">>, <<"s", "e", "c", "u", "r", "i", "t", "y">>, <<"p", "e", "r", "f", "o", "r", "m", "a", "n", "c", "e">>>>

\* PlaneTicketCreator.analyzeTicket, "Tag extraction"
ticketLabels(lowerDesc) == SelectSeq(techTags, LAMBDA w : includes(lowerDesc, w))

\* PlaneTicketCreator.analyzeTicket, "Complexity estimation"
ticketComplexity(description) ==
  IF wordCount(description) > 50 THEN "High"
  ELSE IF wordCount(description) > 20 THEN "Medium"
  ELSE "Low"

\* PlaneTicketCreator.analyzeTicket
analyzeTicket(description) ==
  LET lowerDesc == toLowerCase(description)
      c == ticketCategory(lowerDesc)
  IN [fn |-> "analyzeTicket",
      title |-> substring0(trim(firstSentence(description)), 80),
      category |-> c.category,
      priority |-> ticketUrgency(lowerDesc, c.priority),
      complexity |-> ticketComplexity(description),
      labels |-> ticketLabels(lowerDesc),
      id |-> 0]

\* webhook-listener categorizeIssue: the first category, in the order of the
\* object literal, one of whose keywords occurs
categorizeIssue(description) ==
  LET lowerDesc == toLowerCase(description)
  IN IF includesAny(lowerDesc, {<<"b", "u", "g">>, <<"e", "r", "r", "o", "r">>, <<"i", "s", "s", "u", "e">>, <<"p", "r", "o", "b", "l", "e", "m">>, <<"b", "r", "o", "k", "e", "n">>}) THEN "BUG"
     ELSE IF includesAny(lowerDesc, {<<"f", "e", "a", "t", "u", "r", "e">>, <<"a", "d", "d">>, <<"i", "m", "p", "l", "e", "m", "e", "n", "t">>, <<"n", "e", "w">>}) THEN "FEATURE"
     ELSE IF includesAny(lowerDesc, {<<"i", "m", "p", "r", "o", "v", "e">>, <<"o", "p", "t", "i", "m", "i", "z", "e">>, <<"e", "n", "h", "a", "n", "c", "e">>, <<"b", "e", "t", "t", "e", "r">>})
     THEN "IMPROVEMENT"
     ELSE IF includesAny(lowerDesc, {<<"t", "a", "s", "k">>, <<"t", "o", "d", "o">>, <<"s", "e", "t", "u", "p">>, <<"c", "o", "n", "f", "i", "g", "u", "r", "e">>}) THEN "TASK"
     ELSE "GENERAL"

\* webhook-listener suggestPriority
suggestPriority(title, description) ==
  LET text == toLowerCase(title \o <<" ">> \o description)
  IN IF includesAny(text, {<<"u", "r", "g", "e", "n", "t">>, <<"c", "r", "i", "t", "i", "c", "a", "l">>, <<"c", "r", "a", "s", "h">>}) THEN "HIGH"
     ELSE IF includesAny(text, {<<"i", "m", "p", "o", "r", "t", "a", "n", "t">>, <<"s", "h", "o", "u", "l", "d">>}) THEN "MEDIUM"
     ELSE "LOW"

\* webhook-listener estimateComplexity
estimateComplexity(description) ==
  IF includesAny(toLowerCase(description),
                 {<<"i", "n", "t", "e", "g", "r", "a", "t", "i", "o", "n">>, <<"d", "a", "t", "a", "b", "a", "s", "e">>, <<"a", "p", "i">>, <<"s", "e", "c", "u", "r", "i", "t", "y">>, <<"p", "e", "r", "f", "o", "r", "m", "a", "n", "c", "e">>})
       \/ wordCount(description) > 100
  THEN "HIGH"
  ELSE IF wordCount(description) > 30 THEN "MEDIUM"
  ELSE "LOW"

IssueName == <<"L", "o", "g", "i", "n", " ", "p", "a", "g", "e">>

\* webhook-listener addAIAnalysisComment, the three values of the comment
aiAnalysis(name, description) ==
  [fn |-> "addAIAnalysisComment",
   title |-> <<>>,
   category |-> categorizeIssue(description),
   priority |-> suggestPriority(name, description),
   complexity |-> estimateComplexity(description),
   labels |-> <<>>,
   id |-> 0]

\* the words the input texts are made of
Words ==
  {<<"F", "i", "x">>, <<"B", "U", "G">>, <<"e", "r", "r", "o", "r">>, <<"i", "s", "s", "u", "e">>, <<"a", "d", "d">>, <<"i", "m", "p", "r", "o", "v", "e">>,
   <<"u", "r", "g", "e", "n", "t">>, <<"C", "r", "i", "t", "i", "c", "a", "l">>, <<"l", "o", "w", " ", "p", "r", "i", "o", "r", "i", "t", "y">>, <<"a", "p", "i">>, <<"d", "o", "c", "s">>,
   <<"U", "X">>}

RECURSIVE join(_)
\* words.join(' ')
join(words) ==
  IF Len(words) = 0 THEN <<>>
  ELSE IF Len(words) = 1 THEN words[1]
  ELSE words[1] \o <<" ">> \o join(Tail(words))

LoginFlowPrompt ==
  <<"F", "i", "x", " ", "u", "r", "g", "e", "n", "t", " ", "a", "u", "t", "h", "e", "n", "t", "i", "c", "a", "t", "i", "o", "n", " ", "b", "u", "g", " ", "i", "n", " ", "l", "o", "g", "i", "n", " ", "f", "l", "o", "w", ".", " ", "N", "e", "e", "d", "s", " ", "b", "a", "c", "k", "e", "n", "d", " ", "a", "n", "d", " ", "s", "e", "c", "u", "r", "i", "t", "y", " ", "r", "e", "v", "i", "e", "w", ".">>

\* the word counts around the thresholds of the three complexity estimates
WordCounts == {20, 21, 30, 31, 50, 51, 100, 101}

\* n times the word "docs", which is no keyword of any classifier
LongText(n) ==
  [p \in 1..(5 * n - 1) |-> IF p % 5 = 0 THEN " " ELSE <<"d", "o", "c", "s">>[p % 5]]

\* thirty words, two of them separated by two spaces
DoubleSpaced == LongText(15) \o <<" ", " ">> \o LongText(15)

\* prompts around the title limit of 80 characters (79, 80, 82 and 84
\* characters before the first period), with spaces to trim
TitleTexts ==
  {LongText(16),
   LongText(16) \o <<"s">>,
   <<" ", " ">> \o LongText(16) \o <<"s", ".", " ", "T", "h", "e", "n", " ", "d", "o", "c", "s", ".", " ">>,
   LongText(17) \o <<" ", " ", ".", "d", "o", "c", "s">>}

Texts ==
  {join(ws) : ws \in UNION {[1..n -> Words] : n \in 1..MaxWords}}
    \cup {LoginFlowPrompt, DoubleSpaced} \cup TitleTexts
    \cup {LongText(n) : n \in WordCounts}

Functions == {"analyzePrompt", "analyzeTicket", "createLocalTicket", "addAIAnalysisComment"}

\* the analysis `a` was made: it is the last one, and the first one of its
\* function when there was none
Analysed(a) ==
  cls' = [cls EXCEPT !.n = cls.n + 1, !.last = a,
                     !.first = IF cls.first[a.fn].fn = "none"
                               THEN [cls.first EXCEPT ![a.fn] = a] ELSE cls.first]

\* agent.analyzePrompt(text), as createAITicket calls it
AnalyzePrompt ==
  /\ cls.n < MaxAnalyses
  /\ Analysed(analyzePrompt(cls.text))
  /\ UNCHANGED <<call, ncalls, batchVars, webhookVars, rw, bulk, hook>>

\* creator.analyzeTicket(text)
AnalyzeTicket ==
  /\ cls.n < MaxAnalyses
  /\ Analysed(analyzeTicket(cls.text))
  /\ UNCHANGED <<call, ncalls, batchVars, webhookVars, rw, bulk, hook>>

\* creator.createLocalTicket(text): the analysis, under an id taken from the clock
CreateLocalTicket ==
  /\ cls.n < MaxAnalyses
  /\ \E now \in {cls.clock, cls.clock + 1} :
       cls' = [cls EXCEPT
                 !.n = cls.n + 1, !.clock = now,
                 !.last = [analyzeTicket(cls.text) EXCEPT !.fn = "createLocalTicket", !.id = now],
                 !.first = IF cls.first["createLocalTicket"].fn = "none"
                           THEN [cls.first EXCEPT !["createLocalTicket"] =
                                   [analyzeTicket(cls.text) EXCEPT
                                      !.fn = "createLocalTicket", !.id = now]]
                           ELSE cls.first]
  /\ UNCHANGED <<call, ncalls, batchVars, webhookVars, rw, bulk, hook>>

\* addAIAnalysisComment(issue) for an issue whose description is the text
AddAIAnalysisComment ==
  /\ cls.n < MaxAnalyses
  /\ Analysed(aiAnalysis(IssueName, cls.text))
  /\ UNCHANGED <<call, ncalls, batchVars, webhookVars, rw, bulk, hook>>

InitClassify ==
  /\ call = NoCall /\ ncalls = 0 /\ BatchIdle /\ WebhookIdle /\ RailwayIdle /\ BulkIdle /\ SetupIdle
  /\ \E t \in Texts :
       cls = [text |-> t, n |-> 0, clock |-> 0, last |-> NoAnalysis,
              first |-> [f \in Functions |-> NoAnalysis]]

NextClassify == AnalyzePrompt \/ AnalyzeTicket \/ CreateLocalTicket \/ AddAIAnalysisComment

SpecClassify == InitClassify /\ [][NextClassify]_vars

\* --------------------------------------------------- the bulk summaries
\* the prompts of the batch as texts
PromptText(ticketPrompt) ==
  CASE ticketPrompt = "Fix login bug" -> <<"F", "i", "x", " ", "l", "o", "g", "i", "n", " ", "b", "u", "g">>
    [] ticketPrompt = "Add dark mode" -> <<"A", "d", "d", " ", "d", "a", "r", "k", " ", "m", "o", "d", "e">>

\* the CLI of plane-agent.js, case 'bulk': the counts printed of the results
bulkCounts(rs) ==
  LET successful == Cardinality({j \in 1..Len(rs) : rs[j].success})
  IN [successful |-> successful, failed |-> Len(rs) - successful,
      total |-> Len(rs), printed |-> TRUE]

\* createBulkTickets, ticketList.map: the local ticket of every prompt
bulkTickets(list) ==
  [j \in 1..Len(list) |->
     [analyzeTicket(PromptText(list[j])) EXCEPT !.fn = "createLocalTicket"]]

\* categories with acc[t.category] = 1 in place of the increment
categories_NoIncrement(tickets) ==
  [c \in {tickets[j].category : j \in 1..Len(tickets)} |-> 1]

\* createBulkTickets, tickets.reduce by category
categories(tickets) ==
  [c \in {tickets[j].category : j \in 1..Len(tickets)} |->
     Cardinality({j \in 1..Len(tickets) : tickets[j].category = c})]

\* createBulkTickets, tickets.reduce by priority
priorities(tickets) ==
  [c \in {tickets[j].priority : j \in 1..Len(tickets)} |->
     Cardinality({j \in 1..Len(tickets) : tickets[j].priority = c})]

\* the promise of createTicketsFromList resolved: the CLI prints its counts
BulkSummary ==
  /\ pc = "done" /\ ~bulk.summary.printed
  /\ bulk' = [bulk EXCEPT !.summary = bulkCounts(results)]
  /\ UNCHANGED <<call, ncalls, batchVars, webhookVars, cls, rw, hook>>

\* creator.createBulkTickets(ticketList) on the same prompts; the creator
\* shares nothing with the agent, its run stands after the agent's batch
CreateBulkTickets ==
  /\ pc = "done" /\ ~bulk.made
  /\ LET tickets == bulkTickets(ticketList)
     IN bulk' = [bulk EXCEPT !.made = TRUE, !.tickets = tickets,
                             !.categories = categories(tickets),
                             !.priorities = priorities(tickets)]
  /\ UNCHANGED <<call, ncalls, batchVars, webhookVars, cls, rw, hook>>

NextBatch ==
  \/ NextTicket \/ Fetch \/ AfterCreateIssue \/ AfterAddComment \/ Sleep \/ ReturnResults
  \/ BulkSummary \/ CreateBulkTickets

SpecBatch == InitBatch /\ [][NextBatch]_vars

\* PlaneTicketCreator.createLocalTicket: the local ticket of a prompt
createLocalTicket(ticketPrompt) == [tag |-> "object", id |-> "local", status |-> "Draft"]

\* --------------------------------------------------------------- C1 .. C4
\* C1: a candidate answering a non-2xx, non-404 status makes the call fail at
\* once with an error carrying that status, and no later candidate is
\* requested, at every position of the list.
C1_RejectionIsTerminal ==
  \A j \in 1..Len(call.log) :
    Rejected(call.log[j].response) =>
      /\ call.state = "threw"
      /\ call.error = APIError(call.log[j].response.status)
      /\ j = Len(call.log)

\* C2: when every candidate was tried and all answered 404, the call does not
\* complete normally: it signals Unavailable instead of returning a value.
C2_ExhaustedSignalsUnavailable ==
  (Finished(call) /\ All404(call, PathsOf(call))) => call.state # "returned"

\* C3: when every candidate before some candidate c answered 404 and c answers
\* 2xx with a JSON content type, the call returns c's parsed body and requests
\* nothing after c; a call that saw only 404 answers never throws.
Only404Before(log, c) == \A j \in 1..(c - 1) : log[j].response.status = 404

C4_NonJsonIsTerminal ==
  /\ \A j \in 1..Len(call.log) :
       (ok(call.log[j].response) /\ ~IsJson(call.log[j].response)) =>
         /\ call.state = "threw"
         /\ call.error = NonJsonError
         /\ j = Len(call.log)
  /\ Cardinality({j \in 1..Len(call.log) : ok(call.log[j].response)}) <= 1

\* --------------------------------------------------------------- C5 .. C9
Settled == sub.out # "none"
LastEntry == results[Len(results)]

\* C5: the batch result holds one entry per prompt, in input order; an entry
\* is marked failed, with the error message, exactly when the submission of
\* its prompt threw; and a failed prompt never stops the batch, which ends
\* only after every prompt was attempted.
C5_OneEntryPerPromptInOrder ==
  /\ Len(results) = (IF pc = "sleep" THEN i ELSE i - 1)
  /\ pc = "done" => Len(results) = Len(ticketList)
  /\ \A j \in 1..Len(results) : results[j].prompt = ticketList[j]
  /\ Settled =>
       LET out == createAITicket(sub.create, sub.comment)
       IN /\ LastEntry.success = (out.t # "throw")
          /\ out.t = "throw" => LastEntry.error = out.error.message
          /\ out.t # "throw" => LastEntry.ticket = out.value
  /\ Cardinality({k \in 1..Len(timeline) : timeline[k] = "create"})
       = (IF pc \in {"createIssue", "addComment", "sleep"} THEN i ELSE i - 1)

C5_Witness ==
  /\ pc = "done" /\ Len(ticketList) = 3
  /\ results[1].success /\ ~results[2].success /\ results[3].success
  /\ results[2].error = "API error"

\* C6: the rate-limit delay elapses between any two consecutive creation
\* attempts of a batch, also after a failed attempt.
C6_DelayBetweenAttempts ==
  \A k \in 1..(Len(timeline) - 1) :
    ~(timeline[k] = "create" /\ timeline[k + 1] = "create")

\* C7: when the issue was created and the analysis comment then fails, the
\* ticket still counts as created: the batch entry is marked successful.
C7_CommentFailureNotEscalated ==
  (Settled /\ sub.create.state = "returned" /\ HasId(sub.create.value)
     /\ sub.comment.state = "threw")
    => LastEntry.success

\* C8: when a candidate of the creation call was rejected with a non-2xx,
\* non-404 status, the submission ends failed, carrying that error.
C8_RejectionSurfaces ==
  (Settled /\ sub.create.rejected # 0)
    => /\ ~LastEntry.success
       /\ LastEntry.error = APIError(sub.create.rejected).message
       /\ LastEntry.status = sub.create.rejected

\* C9: when the creation call found no usable endpoint, the caller receives
\* the Draft ticket with its local id, the entry is not a failure and no
\* analysis comment is attempted.
C9_UnavailableKeepsDraft ==
  (Settled /\ sub.create.all404)
    => /\ LastEntry.ticket = createLocalTicket(LastEntry.prompt)
       /\ LastEntry.success
       /\ sub.comment.state = "none"

\* -------------------------------------------------------------------- C10
Answered == disp = "Idle" /\ served > 0

\* C10: an event whose type is none of issue.created, issue.updated,
\* issue_comment.created, project.created is answered 200 with
\* {status: "success", processed: <its type>}, and no handler runs for it.
C10_UnknownEventAccepted ==
  (req.event_type \notin
     {"", "issue.created", "issue.updated", "issue_comment.created", "project.created"})
    => /\ ran = <<>> /\ thrown = ""
       /\ Answered =>
            res = [code |-> 200, status |-> "success",
                   processed |-> req.event_type, message |-> ""]

C10_Witness ==
  /\ Answered /\ req.event_type = "unknown.tag" /\ ~req.data.present
  /\ res.code = 200 /\ res.processed = "unknown.tag" /\ ran = <<>>

\* -------------------------------------------------------------------- C11
\* C11: every event is answered 200 {status: "success", processed: type}
\* exactly when its handler did not throw and 500 {status: "error", message}
\* exactly when it threw; the error of a handler ends in the response.
C11_ResponseMirrorsHandlerOutcome ==
  /\ Answered =>
       /\ (thrown = "") <=>
            (res = [code |-> 200, status |-> "success",
                    processed |-> req.event_type, message |-> ""])
       /\ (thrown # "") <=>
            (res = [code |-> 500, status |-> "error", processed |-> "", message |-> thrown])
       /\ res.code \in {200, 500}
  /\ thrown # "" => disp \in {"Responding", "Idle"}

C11_Witness ==
  /\ Answered /\ req.event_type = "issue.created" /\ ~req.data.present
  /\ thrown = TypeErrorName /\ res.code = 500 /\ res.message = TypeErrorName

\* the text, lower-cased, contains one of the words
Mentions(keywords) == includesAny(toLowerCase(cls.text), keywords)

\* C12: a text containing bug, error or fix (in any case) is categorised as
\* a bug by every classifier, whatever other keywords it carries.
C12_BugWordsGiveBug ==
  (cls.last.fn # "none" /\ Mentions({<<"b", "u", "g">>, <<"e", "r", "r", "o", "r">>, <<"f", "i", "x">>}))
    => cls.last.category \in {"BUG", "Bug"}

\* C13: a text containing urgent or critical gets the urgent priority of its
\* classifier, whatever priority its category gave it.
C13_UrgentWordsGiveUrgent ==
  (cls.last.fn # "none" /\ Mentions({<<"u", "r", "g", "e", "n", "t">>, <<"c", "r", "i", "t", "i", "c", "a", "l">>}))
    => cls.last.priority =
         CASE cls.last.fn = "analyzePrompt" -> "urgent"
           [] cls.last.fn \in {"analyzeTicket", "createLocalTicket"} -> "Urgent"
           [] cls.last.fn = "addAIAnalysisComment" -> "HIGH"

C13_Witness ==
  /\ cls.text = <<"i", "m", "p", "r", "o", "v", "e", " ", "u", "r", "g", "e", "n", "t">>
  /\ cls.last.fn = "analyzePrompt"
  /\ cls.last.category = "IMPROVEMENT" /\ cls.last.priority = "urgent"

C15_LoginFlowScenario ==
  (cls.text = LoginFlowPrompt /\ cls.last.fn \in {"analyzePrompt", "analyzeTicket"}) =>
    /\ cls.last.category = (IF cls.last.fn = "analyzePrompt" THEN "BUG" ELSE "Bug")
    /\ cls.last.priority = (IF cls.last.fn = "analyzePrompt" THEN "urgent" ELSE "Urgent")
    /\ {cls.last.labels[k] : k \in 1..Len(cls.last.labels)} = {<<"b", "a", "c", "k", "e", "n", "d">>, <<"s", "e", "c", "u", "r", "i", "t", "y">>}
    /\ Len(cls.last.labels) = 2
    /\ cls.last.title = <<"F", "i", "x", " ", "u", "r", "g", "e", "n", "t", " ", "a", "u", "t", "h", "e", "n", "t", "i", "c", "a", "t", "i", "o", "n", " ", "b", "u", "g", " ", "i", "n", " ", "l", "o", "g", "i", "n", " ", "f", "l", "o", "w">>

C15_Witness ==
  /\ cls.text = LoginFlowPrompt /\ cls.last.fn = "analyzePrompt"
  /\ cls.n = 1 /\ cls.last.category = "BUG"

\* ------------------------------------------------------------ SpecRailway
\* the methods of RailwayAgent that call query
RailwayOps ==
  {"getProjects", "getProjectServices", "getServiceDeployments",
   "triggerDeployment", "getVariables", "setVariable"}

\* what the GraphQL endpoint may answer: a status, a body that parses as JSON
\* or not, its `errors` member (absent, an empty array, an array of errors)
\* and its `data` member (null, an object whose queried member is null, the
\* full object); status 0 is a fetch that rejects
RailwayResponses ==
  {[status |-> st, json |-> TRUE, errors |-> e, data |-> d] :
     st \in {200, 201, 401, 500}, e \in {"absent", "empty", "some"},
     d \in {"null", "partial", "data"}}
  \cup {[status |-> st, json |-> FALSE, errors |-> "absent", data |-> "none"] :
          st \in {0, 200, 502}}

\* response.ok
railwayOk(response) == response.status >= 200 /\ response.status <= 299

\* query answering on the transport status alone
query_TransportOnly(response) ==
  IF response.status = 0 THEN [state |-> "threw", data |-> "none", error |-> "fetch failed"]
  ELSE IF ~railwayOk(response)
  THEN [state |-> "threw", data |-> "none", error |-> "Railway API error"]
  ELSE IF ~response.json THEN [state |-> "threw", data |-> "none", error |-> "SyntaxError"]
  ELSE [state |-> "returned", data |-> response.data, error |-> ""]

\* RailwayAgent.query, from the answer of fetch on: an errors array, empty or
\* not, is truthy
query(response) ==
  IF response.status = 0 THEN [state |-> "threw", data |-> "none", error |-> "fetch failed"]
  ELSE IF ~railwayOk(response)
  THEN [state |-> "threw", data |-> "none", error |-> "Railway API error"]
  ELSE IF ~response.json THEN [state |-> "threw", data |-> "none", error |-> "SyntaxError"]
  ELSE IF response.errors # "absent"
  THEN [state |-> "threw", data |-> "none", error |-> "GraphQL errors"]
  ELSE [state |-> "returned", data |-> response.data, error |-> ""]

\* a method of the agent posts its query
Query ==
  /\ rw.q.state # "fetching"
  /\ rw.nq < MaxQueries
  /\ \E op \in RailwayOps :
       rw' = [rw EXCEPT !.nq = rw.nq + 1,
                        !.q = [NoQuery EXCEPT !.op = op, !.state = "fetching"]]
  /\ UNCHANGED <<call, ncalls, batchVars, webhookVars, cls, bulk, hook>>

\* the endpoint answers and query returns or throws
QueryAnswered ==
  /\ rw.q.state = "fetching" /\ rw.x.state # "running"
  /\ \E response \in RailwayResponses :
       LET out == query(response)
       IN rw' = [rw EXCEPT !.q.response = response, !.q.state = out.state,
                           !.q.data = out.data, !.q.error = out.error]
  /\ UNCHANGED <<call, ncalls, batchVars, webhookVars, cls, bulk, hook>>

InitRailway ==
  call = NoCall /\ ncalls = 0 /\ BatchIdle /\ WebhookIdle /\ ClassifyIdle /\ RailwayIdle /\ BulkIdle /\ SetupIdle

\* the tickets createDeploymentTicket returns: pending, with the action of
\* the command line
Tickets ==
  {[action |-> a, status |-> "pending", error |-> "", extra |-> ""] :
     a \in {"deploy", "redeploy", "status", "rollback"}}

\* the query a ticket's action stands for ("none": the default branch)
actionOp(action) ==
  CASE action \in {"deploy", "redeploy"} -> "triggerDeployment"
    [] action = "status" -> "getServiceDeployments"
    [] OTHER -> "none"

TypeErrorNull == "Cannot read properties of null"

\* executeTicket with a catch block that logs the error and throws it again,
\* as the one of createDeploymentTicket does
executeTicket_Rethrows(ticket, out) ==
  IF actionOp(ticket.action) = "none"
  THEN [state |-> "threw", result |-> NoTicket, out |-> out]
  ELSE IF out.state = "threw" \/ out.data # "data"
  THEN [state |-> "threw", result |-> NoTicket, out |-> out]
  ELSE [state |-> "returned",
        result |-> [ticket EXCEPT !.status = "completed",
                      !.extra = IF ticket.action = "status"
                                THEN "latestDeployment" ELSE "deploymentId"], out |-> out]

\* RailwayAgent.executeTicket once the query of its action ended as `out`:
\* the try block returns a completed copy of the ticket, the catch block a
\* failed one; reading a member of a null data object throws in the try block
executeTicket(ticket, out) ==
  IF actionOp(ticket.action) = "none"
  THEN [state |-> "returned",
        result |-> [ticket EXCEPT !.status = "failed", !.error = "Unknown action"], out |-> out]
  ELSE IF out.state = "threw"
  THEN [state |-> "returned",
        result |-> [ticket EXCEPT !.status = "failed", !.error = out.error], out |-> out]
  ELSE IF out.data # "data"
  THEN [state |-> "returned",
        result |-> [ticket EXCEPT !.status = "failed", !.error = TypeErrorNull], out |-> out]
  ELSE [state |-> "returned",
        result |-> [ticket EXCEPT !.status = "completed",
                      !.extra = IF ticket.action = "status"
                                THEN "latestDeployment" ELSE "deploymentId"], out |-> out]

\* agent.executeTicket(ticket): an unknown action ends in the default branch
\* at once, the other actions post their query
ExecuteTicket ==
  /\ rw.q.state # "fetching" /\ rw.x.state # "running"
  /\ rw.nq < MaxQueries
  /\ \E ticket \in Tickets :
       IF actionOp(ticket.action) = "none"
       THEN rw' = [rw EXCEPT !.ticket = ticket, !.x = executeTicket(ticket, NoOutcome)]
       ELSE rw' = [rw EXCEPT !.ticket = ticket, !.nq = rw.nq + 1,
                     !.x = [NoExecution EXCEPT !.state = "running"],
                     !.q = [NoQuery EXCEPT !.op = actionOp(ticket.action),
                                           !.state = "fetching"]]
  /\ UNCHANGED <<call, ncalls, batchVars, webhookVars, cls, bulk, hook>>

\* the endpoint answers the query of executeTicket, which runs to its return
ExecuteAnswered ==
  /\ rw.q.state = "fetching" /\ rw.x.state = "running"
  /\ \E response \in RailwayResponses :
       LET out == query(response)
       IN rw' = [rw EXCEPT !.q.response = response, !.q.state = out.state,
                           !.q.data = out.data, !.q.error = out.error,
                           !.x = executeTicket(rw.ticket, out)]
  /\ UNCHANGED <<call, ncalls, batchVars, webhookVars, cls, bulk, hook>>

NextRailway == Query \/ QueryAnswered \/ ExecuteTicket \/ ExecuteAnswered

SpecRailway == InitRailway /\ [][NextRailway]_vars

\* C16: a 2xx answer whose body carries an errors array makes query throw and
\* return no data, as a non-2xx answer does; query returns data only for a
\* 2xx answer without errors.
C16_ErrorsArrayFailsTheCall ==
  rw.q.state \in {"returned", "threw"} =>
    /\ (railwayOk(rw.q.response) /\ rw.q.response.json /\ rw.q.response.errors # "absent")
         => (rw.q.state = "threw" /\ rw.q.data = "none" /\ rw.q.error = "GraphQL errors")
    /\ (rw.q.response.status # 0 /\ ~railwayOk(rw.q.response))
         => (rw.q.state = "threw" /\ rw.q.data = "none" /\ rw.q.error = "Railway API error")
    /\ rw.q.state = "returned"
         => (railwayOk(rw.q.response) /\ rw.q.response.errors = "absent"
             /\ rw.q.data = rw.q.response.data)

C16_Witness ==
  /\ rw.q.state = "threw" /\ rw.q.error = "GraphQL errors"
  /\ rw.q.response.status = 200 /\ rw.q.response.errors = "some"
  /\ rw.q.response.data = "data" /\ rw.q.data = "none"

\* C17: in every call the candidates requested so far are the first ones of
\* the fixed list, in its order, whatever the call before it ended with; the
\* next candidate is the one after the last requested.
C17_EveryCallRestartsTheProbe ==
  /\ Len(call.log) <= Len(PathsOf(call))
  /\ \A j \in 1..Len(call.log) :
       call.log[j].path = <<"/api/v1", "/api", "/api/public", "">>[j]
  /\ Running(call) => call.k = Len(call.log) + 1

C17_Witness ==
  /\ ncalls = 2 /\ call.method = "request" /\ call.prev = 2
  /\ Len(call.log) = 2 /\ call.log[1].path = "/api/v1" /\ call.log[2].path = "/api"

\* a remote call is issued in this step
Issued == call' # call /\ call'.state = "running" /\ call'.log = <<>>

\* C18: the batch works on one prompt at a time: a remote call is issued only
\* when none is in flight, and a call for prompt i only when the entries of
\* all prompts before i are recorded; the comment call of a prompt follows
\* its finished creation call.
C18_StrictlySequential ==
  /\ [](/\ (call # NoCall) <=> (pc \in {"createIssue", "addComment"})
        /\ call # NoCall => (i <= Len(ticketList) /\ Len(results) = i - 1
                             /\ call.purpose = pc))
  /\ [][Issued =>
          /\ ~Running(call)
          /\ Len(results) = i - 1 /\ i' = i
          /\ call'.purpose = "createIssue" => (call = NoCall /\ pc = "loop")
          /\ call'.purpose = "addComment" =>
               (call.purpose = "createIssue" /\ call.state = "returned")]_vars

C18_Witness ==
  /\ i = 2 /\ pc = "addComment" /\ Running(call) /\ Len(call.log) = 1
  /\ Len(results) = 1 /\ ~results[1].success

\* the handlers of the listener that ran for the event, in order
HandlersRun ==
  SelectSeq(ran, LAMBDA h : h \in {"handleIssueCreated", "handleIssueUpdated",
                                   "handleCommentCreated", "handleProjectCreated"})

\* C19: once the switch is through, exactly the handler registered for the
\* event's tag has run, once, and none for a tag outside the closed set; the
\* analysis comment is generated for issue.created only.
C19_ExactlyOneHandler ==
  (disp = "Responding" \/ Answered) =>
    /\ HandlersRun =
         CASE req.event_type = "issue.created" -> <<"handleIssueCreated">>
           [] req.event_type = "issue.updated" -> <<"handleIssueUpdated">>
           [] req.event_type = "issue_comment.created" -> <<"handleCommentCreated">>
           [] req.event_type = "project.created" -> <<"handleProjectCreated">>
           [] OTHER -> <<>>
    /\ Len(HandlersRun) <= 1
    /\ (\E k \in 1..Len(ran) : ran[k] = "addAIAnalysisComment")
         => req.event_type = "issue.created"

C19_Witness ==
  /\ disp = "Responding" /\ req.event_type = "issue.created" /\ thrown = ""
  /\ ran = <<"handleIssueCreated", "addAIAnalysisComment">>

\* C20: every received event is answered and the dispatcher is Idle again,
\* whatever its handler did; the response is sent in the step back to Idle,
\* once per event, and an Idle dispatcher takes the next event.
C20_AlwaysBackToIdle ==
  /\ (disp # "Idle") ~> (disp = "Idle" /\ res # NoResponse)
  /\ [][/\ (disp # "Idle" /\ disp' = "Idle") <=> (served' = served + 1)
        /\ served' # served => (res' \in {respond(req.event_type, thrown)} /\ req' = req)
        /\ served' = served =>
             (res' = res \/ (disp = "Idle" /\ disp' = "Handling" /\ res' = NoResponse))]_vars
  /\ []((disp = "Idle" /\ served < MaxEvents) => ENABLED Receive)

C20_Witness ==
  /\ Answered /\ served = 2 /\ req.event_type = "project.created"
  /\ thrown # "" /\ res.code = 500

\* C21: a prompt holding both an urgency term (urgent, critical, asap) and a
\* low-priority phrase (low priority, when possible) gets priority low: the
\* low-priority test is the later one and wins.
C21_LowPriorityWinsOverUrgency ==
  (/\ cls.last.fn = "analyzePrompt"
   /\ Mentions({<<"u", "r", "g", "e", "n", "t">>, <<"c", "r", "i", "t", "i", "c", "a", "l">>, <<"a", "s", "a", "p">>})
   /\ Mentions({<<"l", "o", "w", " ", "p", "r", "i", "o", "r", "i", "t", "y">>, <<"w", "h", "e", "n", " ", "p", "o", "s", "s", "i", "b", "l", "e">>}))
    => cls.last.priority = "low"

\* the priority a category stands for, in the spelling of the classifier
BasePriority(category) ==
  CASE category \in {"BUG", "Bug"} -> {"high", "High", "HIGH"}
    [] category \in {"FEATURE", "Feature"} -> {"medium", "Medium", "MEDIUM"}
    [] category \in {"IMPROVEMENT", "Enhancement"} -> {"low", "Low", "LOW"}
    [] category \in {"TASK", "Task"} -> {"medium", "Medium", "MEDIUM"}
    [] OTHER -> {"low", "Low", "LOW", "medium", "Medium", "MEDIUM", "high", "High", "HIGH"}

\* C22: the category is that of the first keyword set, in the order bug,
\* feature, improvement, task, one of whose terms occurs; a text with none of
\* them gets the default category; and without an urgency or low-priority
\* term the priority is the base priority of the category.
C22_FirstCategoryDecides ==
  cls.last.fn # "none" =>
    LET bug == Mentions({<<"b", "u", "g">>, <<"e", "r", "r", "o", "r">>})
        anyBug == Mentions({<<"b", "u", "g">>, <<"e", "r", "r", "o", "r">>, <<"i", "s", "s", "u", "e">>, <<"f", "i", "x">>, <<"p", "r", "o", "b", "l", "e", "m">>, <<"b", "r", "o", "k", "e", "n">>})
        feature == Mentions({<<"f", "e", "a", "t", "u", "r", "e">>, <<"a", "d", "d">>, <<"i", "m", "p", "l", "e", "m", "e", "n", "t">>})
        anyFeature == Mentions({<<"f", "e", "a", "t", "u", "r", "e">>, <<"a", "d", "d">>, <<"i", "m", "p", "l", "e", "m", "e", "n", "t">>, <<"n", "e", "w">>})
        improvement == Mentions({<<"i", "m", "p", "r", "o", "v", "e">>, <<"o", "p", "t", "i", "m", "i", "z", "e">>})
        anyOther == Mentions({<<"i", "m", "p", "r", "o", "v", "e">>, <<"o", "p", "t", "i", "m", "i", "z", "e">>, <<"e", "n", "h", "a", "n", "c", "e">>, <<"b", "e", "t", "t", "e", "r">>,
                              <<"t", "a", "s", "k">>, <<"t", "o", "d", "o">>, <<"s", "e", "t", "u", "p">>, <<"c", "o", "n", "f", "i", "g", "u", "r", "e">>})
        anyUrgency == Mentions({<<"u", "r", "g", "e", "n", "t">>, <<"a", "s", "a", "p">>, <<"c", "r", "i", "t", "i", "c", "a", "l">>, <<"c", "r", "a", "s", "h">>, <<"i", "m", "p", "o", "r", "t", "a", "n", "t">>,
                                <<"s", "h", "o", "u", "l", "d">>, <<"l", "o", "w", " ", "p", "r", "i", "o", "r", "i", "t", "y">>, <<"w", "h", "e", "n", " ", "p", "o", "s", "s", "i", "b", "l", "e">>})
    IN /\ bug => cls.last.category \in {"BUG", "Bug"}
       /\ (~anyBug /\ feature) => cls.last.category \in {"FEATURE", "Feature"}
       /\ (~anyBug /\ ~anyFeature /\ improvement)
            => cls.last.category \in {"IMPROVEMENT", "Enhancement"}
       /\ (~anyBug /\ ~anyFeature /\ ~anyOther)
            => cls.last.category \in {"TASK", "Task", "GENERAL"}
       /\ ~anyUrgency => cls.last.priority \in BasePriority(cls.last.category)

\* the number of whitespace-delimited words of a text
Tokens(s) == Cardinality({p \in 1..Len(s) : s[p] # " " /\ (p = 1 \/ s[p - 1] = " ")})

\* C23: the complexity is High when the text has more than 100 words or holds
\* one of integration, database, api, security, performance; otherwise
\* Medium when it has more than 30 words; otherwise Low.
C23_ComplexityThresholds ==
  cls.last.fn # "none" =>
    cls.last.complexity \in
      (IF Tokens(cls.text) > 100
            \/ Mentions({<<"i", "n", "t", "e", "g", "r", "a", "t", "i", "o", "n">>, <<"d", "a", "t", "a", "b", "a", "s", "e">>, <<"a", "p", "i">>, <<"s", "e", "c", "u", "r", "i", "t", "y">>, <<"p", "e", "r", "f", "o", "r", "m", "a", "n", "c", "e">>})
       THEN {"HIGH", "High"}
       ELSE IF Tokens(cls.text) > 30 THEN {"MEDIUM", "Medium"}
       ELSE {"LOW", "Low"})

\* the text before the first period, trimmed
Sentence == trim(firstSentence(cls.text))

\* C24: the title is the text before the first period, trimmed, when that
\* has at most 80 characters; a longer one is cut and ends with an ellipsis
\* marker; the title never has more than 80 characters.
C24_TitleWithinLimit ==
  cls.last.fn \in {"analyzePrompt", "analyzeTicket", "createLocalTicket"} =>
    LET title == cls.last.title
    IN /\ Len(title) <= 80
       /\ Len(Sentence) <= 80 => title = Sentence
       /\ Len(Sentence) > 80 =>
            /\ Len(title) > 3
            /\ SubSeq(title, Len(title) - 2, Len(title)) = <<".", ".", ".">>
            /\ SubSeq(title, 1, Len(title) - 3) = SubSeq(Sentence, 1, Len(title) - 3)

\* the label vocabulary of the spec
Vocabulary ==
  {<<"a", "p", "i">>, <<"d", "a", "t", "a", "b", "a", "s", "e">>, <<"f", "r", "o", "n", "t", "e", "n", "d">>, <<"b", "a", "c", "k", "e", "n", "d">>, <<"u", "i">>, <<"u", "x">>, <<"s", "e", "c", "u", "r", "i", "t", "y">>, <<"p", "e", "r", "f", "o", "r", "m", "a", "n", "c", "e">>}

\* C25: the labels of a text are exactly the words of the vocabulary that
\* occur in the lower-cased text, each of them once.
C25_LabelsAreVocabularyHits ==
  cls.last.fn \in {"analyzePrompt", "analyzeTicket", "createLocalTicket"} =>
    LET labels == cls.last.labels
    IN /\ {labels[k] : k \in 1..Len(labels)} = {w \in Vocabulary : Mentions({w})}
       /\ \A j, k \in 1..Len(labels) : labels[j] = labels[k] => j = k

\* C26: an entry of the batch result is marked successful only when a
\* candidate of its creation call answered 2xx with JSON, so that it carries
\* the created ticket; a creation call that found no endpoint never leaves a
\* successful entry without a ticket.
C26_SuccessMeansCreated ==
  /\ \A j \in 1..Len(results) : results[j].success => Truthy(results[j].ticket)
  /\ (Settled /\ LastEntry.success) =>
       (sub.create.state = "returned" /\ ~sub.create.all404)

\* C27: executeTicket always returns, never throws: a copy of the ticket
\* that is completed when the action is deploy, redeploy or status and its
\* remote call gave the data, and failed with the error message otherwise;
\* never a pending one; the ticket passed in stays as it was.
C27_ExecuteTicketNeverRaises ==
  /\ rw.x.state \in {"none", "running", "returned"}
  /\ rw.ticket # NoTicket => rw.ticket \in Tickets
  /\ rw.x.state = "returned" =>
       LET result == rw.x.result
           done == /\ rw.ticket.action \in {"deploy", "redeploy", "status"}
                   /\ rw.x.out.state = "returned" /\ rw.x.out.data = "data"
       IN /\ result.action = rw.ticket.action
          /\ result.status = (IF done THEN "completed" ELSE "failed")
          /\ (result.status = "failed") <=> (result.error # "")
          /\ (rw.ticket.action \in {"deploy", "redeploy", "status"} /\ rw.x.out.state = "threw")
               => result.error = rw.x.out.error

C27_Witness ==
  /\ rw.x.state = "returned" /\ rw.ticket.action = "redeploy"
  /\ rw.ticket.status = "pending"
  /\ rw.q.state = "threw" /\ rw.q.error = "GraphQL errors"
  /\ rw.x.result.status = "failed" /\ rw.x.result.error = "GraphQL errors"

RECURSIVE SumOver(_, _)
\* the sum of the counts f[c] for c in S
SumOver(f, S) ==
  IF S = {} THEN 0
  ELSE LET c == CHOOSE x \in S : TRUE IN f[c] + SumOver(f, S \ {c})

\* C28: the counts printed are projections of the result: successful plus
\* failed is the number of input prompts, each being the number of entries so
\* marked; the counts per category and per priority of createBulkTickets
\* each sum to the number of tickets, one per prompt.
C28_SummaryCountsAddUp ==
  /\ bulk.summary.printed =>
       /\ bulk.summary.successful + bulk.summary.failed = Len(ticketList)
       /\ bulk.summary.successful = Cardinality({j \in 1..Len(results) : results[j].success})
       /\ bulk.summary.failed = Cardinality({j \in 1..Len(results) : ~results[j].success})
  /\ bulk.made =>
       /\ Len(bulk.tickets) = Len(ticketList)
       /\ SumOver(bulk.categories, DOMAIN bulk.categories) = Len(bulk.tickets)
       /\ SumOver(bulk.priorities, DOMAIN bulk.priorities) = Len(bulk.tickets)
       /\ \A c \in DOMAIN bulk.categories :
            bulk.categories[c] = Cardinality({j \in 1..Len(bulk.tickets) :
                                               bulk.tickets[j].category = c})

C28_Witness ==
  /\ bulk.summary.printed /\ bulk.made /\ Len(ticketList) = 3
  /\ bulk.summary.successful = 2 /\ bulk.summary.failed = 1
  /\ bulk.categories = [c \in {"Bug", "Feature"} |-> IF c = "Bug" THEN 2 ELSE 1]
  /\ bulk.priorities = [c \in {"High", "Medium"} |-> IF c = "High" THEN 2 ELSE 1]

\* -------------------------------------------------------------- SpecSetup
Slugs == {"indigo", "ops"}

\* what the workspace listing may answer: a rejected fetch, a non-2xx
\* status, a 2xx body that is no JSON, a JSON object that is no array, or
\* the array of workspaces
ListingFailures == {"fetch failed", "status 401", "status 500", "not json", "not iterable"}

WorkspaceLists == UNION {[1..n -> Slugs] : n \in 0..MaxWorkspaces}

\* what a webhook creation may answer
CreationAnswers == {"fetch failed", "201 json", "200 not json", "status 400", "status 500"}

\* the catch block: the error is logged and the function returns
caught(h, message) == [h EXCEPT !.pc = "done", !.error = message]

\* the head of the for loop: the creation for the next workspace is posted,
\* or the loop and the function end
loopHead(h) ==
  IF h.k > Len(h.workspaces) THEN [h EXCEPT !.pc = "done"]
  ELSE [h EXCEPT !.pc = "creating",
                 !.posts = Append(h.posts, [slug |-> h.workspaces[h.k], answer |-> "pending"])]

\* afterCreation throwing on a non-2xx answer, as the listing does
afterCreation_ThrowOnFailure(h, answer) ==
  LET h2 == [h EXCEPT !.posts[Len(h.posts)].answer = answer]
  IN IF answer = "201 json"
     THEN loopHead([h2 EXCEPT !.k = h.k + 1,
                              !.created = Append(h.created, h.workspaces[h.k])])
     ELSE caught(h2, answer)

\* the loop body after the awaited creation: a rejected fetch and a 2xx body
\* that is no JSON throw into the catch block; a non-2xx answer is logged
\* and the loop goes on
afterCreation(h, answer) ==
  LET h2 == [h EXCEPT !.posts[Len(h.posts)].answer = answer]
  IN CASE answer \in {"fetch failed", "200 not json"} -> caught(h2, answer)
       [] answer = "201 json" ->
            loopHead([h2 EXCEPT !.k = h.k + 1,
                                !.created = Append(h.created, h.workspaces[h.k])])
       [] OTHER -> loopHead([h2 EXCEPT !.k = h.k + 1])

\* setupPlaneWebhook() up to its first await: without an API key it prints
\* the instructions and returns
SetupStart ==
  /\ hook.pc = "start"
  /\ hook' = IF ~hook.apiKey THEN [hook EXCEPT !.pc = "done"]
             ELSE [hook EXCEPT !.pc = "listing", !.listing = "pending"]
  /\ UNCHANGED <<call, ncalls, batchVars, webhookVars, cls, rw, bulk>>

\* the listing fails: the catch block ends the function
ListingFailed ==
  /\ hook.pc = "listing"
  /\ \E f \in ListingFailures : hook' = caught([hook EXCEPT !.listing = f], f)
  /\ UNCHANGED <<call, ncalls, batchVars, webhookVars, cls, rw, bulk>>

\* the listing answers 2xx with the array of workspaces: the loop starts
ListingAnswered ==
  /\ hook.pc = "listing"
  /\ \E ws \in WorkspaceLists :
       hook' = loopHead([hook EXCEPT !.listing = "array", !.workspaces = ws, !.k = 1])
  /\ UNCHANGED <<call, ncalls, batchVars, webhookVars, cls, rw, bulk>>

\* the creation for workspace k is answered
CreationAnswered ==
  /\ hook.pc = "creating"
  /\ \E answer \in CreationAnswers : hook' = afterCreation(hook, answer)
  /\ UNCHANGED <<call, ncalls, batchVars, webhookVars, cls, rw, bulk>>

InitSetup ==
  /\ call = NoCall /\ ncalls = 0 /\ BatchIdle /\ WebhookIdle /\ ClassifyIdle
  /\ RailwayIdle /\ BulkIdle
  /\ \E key \in BOOLEAN : hook = [NoSetup EXCEPT !.apiKey = key, !.pc = "start"]

NextSetup == SetupStart \/ ListingFailed \/ ListingAnswered \/ CreationAnswered

SpecSetup == InitSetup /\ [][NextSetup]_vars

\* the creation answers that are HTTP answers with a non-2xx status
Refused == {"status 400", "status 500"}

\* C29: setupPlaneWebhook never raises; without an API key it issues no
\* request; when the listing fails no creation is posted and no webhook
\* created; the creations are posted for the workspaces in listing order,
\* and a non-2xx answer to one of them is followed by the creation for the
\* next workspace: the loop stops early only on an error that is no answer
\* with a status.
C29_SetupSurvivesRefusals ==
  /\ ~hook.raised
  /\ ~hook.apiKey => (hook.listing = "none" /\ hook.posts = <<>>)
  /\ hook.listing \in ListingFailures =>
       (hook.posts = <<>> /\ hook.created = <<>> /\ hook.pc = "done")
  /\ Len(hook.posts) <= Len(hook.workspaces)
  /\ \A j \in 1..Len(hook.posts) : hook.posts[j].slug = hook.workspaces[j]
  /\ \A j \in 1..Len(hook.posts) :
       (hook.posts[j].answer \in Refused /\ j < Len(hook.workspaces))
         => Len(hook.posts) > j
  /\ (hook.pc = "done" /\ hook.listing = "array"
        /\ \A j \in 1..Len(hook.posts) : hook.posts[j].answer \in Refused \cup {"201 json"})
       => Len(hook.posts) = Len(hook.workspaces)

C29_Witness ==
  /\ hook.pc = "done" /\ Len(hook.workspaces) = 3 /\ Len(hook.posts) = 3
  /\ hook.posts[1].answer = "status 500" /\ hook.posts[2].answer = "201 json"
  /\ hook.posts[3].answer = "status 400"
  /\ hook.created = <<hook.workspaces[2]>>

====
